---- MODULE Spec2Model ----
(***************************************************************************)
(* A model of the notebook bayesian_imputation.ipynb: the cells that       *)
(* simulate and censor the data and call the sampler, and the helper       *)
(* functions standardize, forestplot, posterior_mode, summary and qqplot.  *)
(*                                                                         *)
(* Numbers are integers or exact rationals [num, den]; a float that is not *)
(* finite is one of the records NaN, PosInf, NegInf.                       *)
(***************************************************************************)
EXTENDS Integers, Sequences, FiniteSets, TLC

VARIABLES
    \* ---- the notebook run ----
    nb_pc,          \* index in Cells of the next cell to execute
    df_sim,         \* the Observation Table (sequence of rows), <<>> before the Simulator ran
    df_sim_obs,     \* rows of df_sim below the cutoff
    df_sim_cens,    \* rows of df_sim above the cutoff
    sim_model_trace,            \* what the naive model was fitted on
    sim_model_imputed_trace,    \* what the imputed model was fitted on
    ppc,            \* the posterior predictive sample
    outputs,        \* the rendered outputs, in order
    globals,        \* the names bound in the notebook's namespace
    \* ---- a call of _posterior_mode on one sample array ----
    samples,        \* the argument: a sequence of floats, some of them not finite
    mode_out,       \* the outcome of _posterior_mode(samples)
    mode_clean,     \* the outcome of _posterior_mode on samples with the non-finite values removed
    \* ---- a call of summary on a multi-parameter trace ----
    trace,          \* the argument: an array of shape (draws, parameters)
    table,          \* the outcome of summary(trace)
    col_mode,       \* the outcome of posterior_mode on one column of trace alone
    \* ---- a call of qqplot ----
    predicted,      \* first argument
    observed,       \* second argument
    qq_n,           \* third argument n
    qq,             \* what the call plotted
    \* ---- a call of standardize ----
    column,         \* the argument df: a numeric column
    standardized,   \* the returned column
    \* ---- a call of forestplot ----
    fp_pc,          \* position in the body of forestplot
    fp_terms,       \* model.fixed_terms.keys()
    fp_transform,   \* the argument transform
    fp_axes         \* what is drawn on the current axes

nbvars == <<nb_pc, df_sim, df_sim_obs, df_sim_cens, sim_model_trace,
            sim_model_imputed_trace, ppc, outputs, globals>>

modevars == <<samples, mode_out, mode_clean>>

\* the variables of the helper calls, which the notebook run leaves alone
sumvars == <<trace, table, col_mode>>

qqvars == <<predicted, observed, qq_n, qq>>

stdvars == <<column, standardized>>

fpvars == <<fp_pc, fp_terms, fp_transform, fp_axes>>

hvars == <<modevars, sumvars, qqvars, stdvars, fpvars>>

vars == <<nbvars, hvars>>

(***************************************************************************)
(* Generic helpers on sequences of integers.                               *)
(***************************************************************************)
Range(s) == {s[i] : i \in DOMAIN s}

Abs(n) == IF n < 0 THEN 0 - n ELSE n

Min(a, b) == IF a < b THEN a ELSE b

SetMax(S) == CHOOSE m \in S : \A o \in S : o <= m

SetMin(S) == CHOOSE m \in S : \A o \in S : m <= o

\* exact rationals, den > 0
Rat(n, d) == [num |-> n, den |-> d]

RECURSIVE Gcd(_, _)
Gcd(a, b) == IF b = 0 THEN a ELSE Gcd(b, a % b)

\* the rational in lowest terms
RatNorm(p) == LET g == Gcd(Abs(p.num), p.den) IN Rat(p.num \div g, p.den \div g)

RatEq(p, q) == p.num * q.den = q.num * p.den

RatLe(p, q) == p.num * q.den <= q.num * p.den

RECURSIVE SumSeq(_)
SumSeq(s) == IF s = <<>> THEN 0 ELSE Head(s) + SumSeq(Tail(s))

(***************************************************************************)
(* Simulation and censoring (script level).                                *)
(***************************************************************************)
\* bound: the number of simulated rows (1000 in the notebook)
NRows == 2

\* np.random.normal(0, 5, ...): the standard deviation of the three draws
Sigma == 5
\* a draw is modelled as the mean or one standard deviation either side of it
SimValues == {0 - Sigma, 0, Sigma}

\* df_sim['y'] = 30 + df_sim['x1'] + (df_sim['x2'] * 2) + df_sim['e']
Intercept == 30
BetaX2 == 2
ResponseY(x1, x2, e) == Intercept + x1 + (x2 * BetaX2) + e

cutoff_right == 40

\* one row of the table; index is the pandas row label
Row(i, x1, x2, e) == [index |-> i, x1 |-> x1, x2 |-> x2, e |-> e, y |-> ResponseY(x1, x2, e)]

\* the boolean mask of df_sim.loc[df_sim['y'] < cutoff_right]
IsObserved(row) == row.y < cutoff_right

\* a copy-paste of the first mask with the comparison left unflipped
IsCensoredUnflipped(row) == row.y < cutoff_right

\* the boolean mask of df_sim.loc[df_sim['y'] > cutoff_right]
IsCensored(row) == row.y > cutoff_right

\* df_sim.loc[df_sim['y'] < cutoff_right]: the rows whose mask is true, in order, labels kept
LocObserved(df) == SelectSeq(df, IsObserved)

\* df_sim.loc[df_sim['y'] > cutoff_right]
LocCensored(df) == SelectSeq(df, IsCensored)

(***************************************************************************)
(* Floats that may be non-finite.                                          *)
(***************************************************************************)
Fin(n) == [k |-> "fin", v |-> n]
NaN == [k |-> "nan", v |-> 0]
PosInf == [k |-> "inf", v |-> 1]
NegInf == [k |-> "inf", v |-> 0 - 1]

\* np.isfinite
isfinite(x) == x.k = "fin"

(***************************************************************************)
(* _posterior_mode: the grid point of maximum kernel density.              *)
(***************************************************************************)
\* the default of the parameter bins, which every call in the notebook uses
Bins == 500

\* np.linspace(start, stop, num)[i], i = 0 .. num-1 (endpoint included)
Linspace(start, stop, num, i) ==
    IF num = 1 THEN Rat(start, 1)
    ELSE Rat(start * (num - 1) + i * (stop - start), num - 1)

\* exp(-k/64) in units of 1/100000, by exp(-a) * exp(-b/8) * exp(-c/64)
ExpA == <<100000, 36788, 13534, 4979, 1832, 674, 248, 91, 34, 12, 5, 2, 1>>
ExpB == <<10000, 8825, 7788, 6873, 6065, 5353, 4724, 4169>>
ExpC == <<10000, 9845, 9692, 9542, 9394, 9248, 9105, 8964>>
ExpNeg64(k) ==
    IF k >= 64 * Len(ExpA) THEN 0
    ELSE (((ExpA[(k \div 64) + 1] * ExpB[((k % 64) \div 8) + 1]) \div 10000)
            * ExpC[(k % 8) + 1]) \div 10000

\* n * sum(x^2) - sum(x)^2 = n * (n-1) * variance (ddof = 1)
SumSq(s) == SumSeq([i \in DOMAIN s |-> s[i] * s[i]])
ScaledVar(s) == Len(s) * SumSq(s) - SumSeq(s) * SumSeq(s)

\* scotts_factor ** -2 = n ** (2/5), in hundredths
ScottInv == <<100, 132, 155, 174, 190, 205, 218, 230>>

\* gaussian_kde(s).pdf at grid point i of np.linspace(xmin, xmax, bins), up to the
\* normalising constant: sum over the samples of exp(-(g - x)^2 / (2 * covariance)),
\* covariance = variance (ddof = 1) * scotts_factor^2
KdePdf(s, xmin, xmax, bins, i) ==
    LET n == Len(s)
        Kernel(x) ==
            LET d  == (xmin - x) * (bins - 1) + i * (xmax - xmin)   \* (g - x) * (bins - 1)
                t  == (64 * d * d * n * (n - 1)) \div (2 * ScaledVar(s))
                u  == ((t \div (bins - 1)) * ScottInv[n]) \div (100 * (bins - 1))
            IN  ExpNeg64(u)
    IN  SumSeq([j \in DOMAIN s |-> Kernel(s[j])])

\* np.argmax: the first index (from 0) of the largest density
ArgMax(density) ==
    CHOOSE i \in DOMAIN density :
        /\ \A j \in DOMAIN density : density[j] <= density[i]
        /\ \A j \in DOMAIN density : j < i => density[j] < density[i]

\* samples[np.isfinite(samples)]: the finite values, in order
FiniteSamples(s) == LET kept == SelectSeq(s, isfinite) IN [i \in DOMAIN kept |-> kept[i].v]

NoMode == [status |-> "none", xmin |-> 0, xmax |-> 0, argmax |-> 0, value |-> Rat(0, 1)]
Raised == [status |-> "raised", xmin |-> 0, xmax |-> 0, argmax |-> 0, value |-> Rat(0, 1)]

\* the body of _posterior_mode once the samples are filtered
ModeOfFinite(s, bins) ==
    IF s = <<>> THEN Raised                      \* np.min of an empty array raises
    ELSE IF Len(s) < 2 \/ ScaledVar(s) = 0 THEN Raised   \* gaussian_kde: singular covariance
    ELSE LET xmin == SetMin(Range(s))
             xmax == SetMax(Range(s))
             density == [i \in 0..(bins - 1) |-> KdePdf(s, xmin, xmax, bins, i)]
             am == ArgMax(density)
         IN  \* step = (xmax - xmin) / bins; return xmin + np.argmax(density) * step
             [status |-> "ok", xmin |-> xmin, xmax |-> xmax, argmax |-> am,
              value |-> Rat(xmin * bins + am * (xmax - xmin), bins)]

\* the filter left out: a value that is not finite reaches np.min, np.max and the
\* density, and the result is NaN
posterior_mode_unfiltered(smp, bins) ==
    IF \E i \in DOMAIN smp : ~isfinite(smp[i]) THEN
        [status |-> "nan", xmin |-> 0, xmax |-> 0, argmax |-> 0, value |-> Rat(0, 1)]
    ELSE ModeOfFinite(FiniteSamples(smp), bins)

\* def _posterior_mode(samples, bins=500)
posterior_mode_1d(smp, bins) == ModeOfFinite(FiniteSamples(smp), bins)

(***************************************************************************)
(* Specification of _posterior_mode calls: the argument is drawn in Init,  *)
(* the function is applied to it and to its finite part.                   *)
(***************************************************************************)
\* bound: the largest finite sample value
MaxSample == 1
\* bound: the longest sample array
MaxDraws == 3

SampleValues == {Fin(n) : n \in 0..MaxSample} \cup {NaN, PosInf, NegInf}

SampleArrays == UNION {[1..n -> SampleValues] : n \in 0..MaxDraws}

ModeIdle ==
    /\ samples = <<>>
    /\ mode_out = NoMode
    /\ mode_clean = NoMode

ModeInit ==
    /\ samples \in SampleArrays
    /\ mode_out = NoMode
    /\ mode_clean = NoMode

\* _posterior_mode(samples)
CallMode ==
    /\ mode_out = NoMode
    /\ mode_out' = posterior_mode_1d(samples, Bins)
    /\ UNCHANGED <<samples, mode_clean>>

\* _posterior_mode(samples[np.isfinite(samples)]): the same array, non-finite values removed
CallModeClean ==
    /\ mode_clean = NoMode
    /\ mode_clean' = posterior_mode_1d(SelectSeq(samples, LAMBDA x : x.k = "fin"), Bins)
    /\ UNCHANGED <<samples, mode_out>>

(***************************************************************************)
(* posterior_mode on a trace of several parameters, and summary.           *)
(***************************************************************************)
\* arr[:, j] of an array given as a sequence of rows
Column(arr, j) == [i \in DOMAIN arr |-> arr[i][j]]

NCols(arr) == IF arr = <<>> THEN 0 ELSE Len(arr[1])

\* np.apply_along_axis(_posterior_mode, axis, arr) for a 2-d array: the function on
\* every 1-d slice along the axis; an exception of the function propagates
ApplyAlongAxis(axis, arr) ==
    LET slices == IF axis = 0 THEN [j \in 1..NCols(arr) |-> Column(arr, j)]
                  ELSE [i \in DOMAIN arr |-> arr[i]]
        results == [k \in DOMAIN slices |-> posterior_mode_1d(slices[k], Bins)]
    IN  IF \E k \in DOMAIN results : results[k].status # "ok"
        THEN [status |-> "raised", modes |-> <<>>]
        ELSE [status |-> "ok", modes |-> [k \in DOMAIN results |-> results[k].value]]

\* every column estimated from the samples of the whole array
posterior_mode_pooled(tr) ==
    LET pooled == [k \in 1..(Len(tr) * NCols(tr)) |->
                     tr[((k - 1) \div NCols(tr)) + 1][((k - 1) % NCols(tr)) + 1]]
        one == posterior_mode_1d(pooled, Bins)
    IN  IF one.status # "ok" THEN [status |-> "raised", modes |-> <<>>]
        ELSE [status |-> "ok", modes |-> [j \in 1..NCols(tr) |-> one.value]]

\* def posterior_mode(trace): np.apply_along_axis(_posterior_mode, 0, trace)
posterior_mode(tr) == ApplyAlongAxis(0, tr)

\* the row labels pm.summary gives the columns of the variable right_censored
TraceColumns == <<"right_censored__0", "right_censored__1">>

NoTable == [status |-> "none", rows |-> <<>>]

\* def summary(trace): pm.summary(trace, extend=True, stat_funcs=[... posterior_mode(x) as 'mode'])
\* one row per column: the default statistics extended by the 'mode' column
summary(tr) ==
    LET m == posterior_mode(tr)
    IN  IF m.status # "ok" THEN [status |-> "raised", rows |-> <<>>]
        ELSE [status |-> "ok",
              rows |-> [j \in 1..NCols(tr) |->
                          [param |-> TraceColumns[j], mode |-> m.modes[j]]]]

\* bound: the number of draws in a trace
TraceDraws == 3

TraceValues == {Fin(0), Fin(1)}

Traces == [1..TraceDraws -> [1..Len(TraceColumns) -> TraceValues]]

NoColMode == [col |-> 0, status |-> "none", modes |-> <<>>]

SumIdle ==
    /\ trace = <<>>
    /\ table = NoTable
    /\ col_mode = NoColMode

SumInit ==
    /\ trace \in Traces
    /\ table = NoTable
    /\ col_mode = NoColMode

\* summary(trace)
CallSummary ==
    /\ table = NoTable
    /\ table' = summary(trace)
    /\ UNCHANGED <<trace, col_mode>>

\* posterior_mode(trace[:, [j]]): the estimator on the samples of column j alone
CallColumnMode ==
    /\ col_mode = NoColMode
    /\ \E j \in 1..NCols(trace) :
         LET alone == [i \in DOMAIN trace |-> <<trace[i][j]>>]
             r == posterior_mode(alone)
         IN  col_mode' = [col |-> j, status |-> r.status, modes |-> r.modes]
    /\ UNCHANGED <<trace, table>>

(***************************************************************************)
(* qqplot: matching percentiles of two arrays and the diagonal.            *)
(***************************************************************************)
\* the position (from 1) of element i when the array is put in ascending order
Rank(a, i) == Cardinality({j \in DOMAIN a : a[j] < a[i] \/ (a[j] = a[i] /\ j < i)}) + 1

\* the array in ascending order, as np.percentile arranges it (an array already
\* ascending is its own arrangement)
Sorted(a) ==
    IF \A i \in DOMAIN a : i = Len(a) \/ a[i] <= a[i + 1] THEN a
    ELSE [k \in DOMAIN a |-> a[CHOOSE i \in DOMAIN a : Rank(a, i) = k]]

\* percentiles over the half-open range: 100 itself is never asked for
PercentsOpen(n) == [i \in 1..n |-> Rat((i - 1) * 100, n)]

\* n = np.linspace(0, 100, n)
Percents(n) == [i \in 1..n |-> Linspace(0, 100, n, i - 1)]

\* np.percentile(a, q) for one q in [0, 100], given a in ascending order: linear
\* interpolation between the two order statistics around the virtual index
\* q/100 * (len(a) - 1)
Percentile(srt, q) ==
    LET m   == Len(srt)
        den == 100 * q.den
        pos == q.num * (m - 1)
        lo  == pos \div den
        hi  == Min(lo + 1, m - 1)
    IN  RatNorm(Rat(srt[lo + 1] * den + (pos % den) * (srt[hi + 1] - srt[lo + 1]), den))

RatMin(S) == CHOOSE p \in S : \A o \in S : RatLe(p, o)

RatMax(S) == CHOOSE p \in S : \A o \in S : RatLe(o, p)

\* the lower end taken from the predicted quantiles alone
QqLowerOfX(x, y) == RatMin(Range(x))

\* lower = np.min([x, y])
QqLower(x, y) == RatMin(Range(x) \cup Range(y))

\* upper = np.max([x, y])
QqUpper(x, y) == RatMax(Range(x) \cup Range(y))

NoPlot == [status |-> "none", x |-> <<>>, y |-> <<>>, line |-> <<>>]

\* def qqplot(predicted, observed, n=101)
qqplot(pred, obs, n) ==
    IF pred = <<>> \/ obs = <<>> THEN
        [status |-> "raised", x |-> <<>>, y |-> <<>>, line |-> <<>>]   \* np.percentile raises
    ELSE LET q == Percents(n)
             ps == Sorted(pred)
             os == Sorted(obs)
             x == [i \in DOMAIN q |-> Percentile(ps, q[i])]
             y == [i \in DOMAIN q |-> Percentile(os, q[i])]
         IN  \* sns.scatterplot(x, y); g.axes.plot((lower, upper), (lower, upper), color='red')
             [status |-> "ok", x |-> x, y |-> y,
              line |-> << <<QqLower(x, y), QqUpper(x, y)>>,
                          <<QqLower(x, y), QqUpper(x, y)>> >>]

\* the default of the parameter n
DefaultN == 101
\* bound: the largest n of the calls with an explicit n
MaxQuantiles == 3
\* bound: the largest value in an argument array
MaxObs == 2
\* bound: the longest argument array
MaxLen == 2

QqArrays == UNION {[1..k -> 0..MaxObs] : k \in 0..MaxLen}

\* predicted = observed = [1, 2, ..., 100]
Ramp == [i \in 1..100 |-> i]

QqIdle ==
    /\ predicted = <<>>
    /\ observed = <<>>
    /\ qq_n = 0
    /\ qq = NoPlot

QqInit ==
    /\ \/ /\ predicted \in QqArrays
          /\ observed \in QqArrays
          /\ qq_n \in (1..MaxQuantiles) \cup {DefaultN}
       \/ /\ predicted = Ramp
          /\ observed = Ramp
          /\ qq_n = DefaultN
    /\ qq = NoPlot

\* g = qqplot(predicted, observed, n)
CallQqplot ==
    /\ qq = NoPlot
    /\ qq' = qqplot(predicted, observed, qq_n)
    /\ UNCHANGED <<predicted, observed, qq_n>>

(***************************************************************************)
(* standardize.  The returned element i is                                 *)
(*   (numer[i] / numer_den) / (factor * sqrt(var)),                        *)
(* the deviation from the mean over a multiple of the standard deviation;  *)
(* the square root is kept symbolic.                                       *)
(***************************************************************************)
\* df.std() ** 2 with numpy's default of ddof = 0 in place of pandas' ddof = 1
std_squared_population(col) == Rat(ScaledVar(col), Len(col) * Len(col))

\* df.std() ** 2: the sample variance (pandas: ddof = 1)
std_squared(col) == Rat(ScaledVar(col), Len(col) * (Len(col) - 1))

NotStandardized == [status |-> "none", numer |-> <<>>, numer_den |-> 1, factor |-> 1,
                    var |-> Rat(1, 1)]

\* def standardize(df): return (df - df.mean()) / (2 * df.std())
standardize(col) ==
    IF Len(col) < 2 \/ ScaledVar(col) = 0 THEN
        \* std is NaN (one element) or zero: every element is NaN or infinite
        [status |-> "nan", numer |-> <<>>, numer_den |-> 1, factor |-> 1, var |-> Rat(1, 1)]
    ELSE [status |-> "ok",
          numer |-> [i \in DOMAIN col |-> Len(col) * col[i] - SumSeq(col)],   \* df - df.mean()
          numer_den |-> Len(col),
          factor |-> 2,
          var |-> std_squared(col)]

\* bound: the longest column
MaxColumn == 4

Columns == UNION {[1..k -> 0..MaxObs] : k \in 1..MaxColumn}

StdIdle ==
    /\ column = <<>>
    /\ standardized = NotStandardized

StdInit ==
    /\ column \in Columns
    /\ standardized = NotStandardized

CallStandardize ==
    /\ standardized = NotStandardized
    /\ standardized' = standardize(column)
    /\ UNCHANGED column

(***************************************************************************)
(* forestplot.                                                             *)
(***************************************************************************)
\* the fixed-effect terms of the regression the notebook fits
FixedTerms == {"Intercept", "x1", "x2"}

\* the transforms a caller passes; np.array is the default
Transforms == {"np.array", "np.exp", "logistic"}

\* float(transform(0))
TransformOfZero(t) ==
    IF t = "np.array" THEN Rat(0, 1)
    ELSE IF t = "np.exp" THEN Rat(1, 1)
    ELSE Rat(1, 2)

NoAxes == [intervals |-> {}, transform |-> "none", rendered |-> FALSE,
           vline |-> <<>>, label |-> <<>>]

FpIdle ==
    /\ fp_pc = "idle"
    /\ fp_terms = {}
    /\ fp_transform = "none"
    /\ fp_axes = NoAxes

\* forestplot(model, transform) is called
FpInit ==
    /\ fp_pc = "called"
    /\ fp_terms \in SUBSET FixedTerms
    /\ fp_transform \in Transforms
    /\ fp_axes = NoAxes

\* pm.forestplot(model.backend.trace, varnames=model.fixed_terms.keys(), transform=transform)
ForestplotIntervals ==
    /\ fp_pc = "called"
    /\ fp_axes' = [fp_axes EXCEPT !.intervals = fp_terms, !.transform = fp_transform,
                                  !.rendered = TRUE]
    /\ fp_pc' = "plotted"
    /\ UNCHANGED <<fp_terms, fp_transform>>

\* g = plt.gca(); g.set(xlim=(None, None)); no_effect = float(transform(0));
\* g.axes.axvline(no_effect, color='red'); g.axes.annotate('no effect', [no_effect, 0], ...)
\* The global name plt is looked up when the line runs: unbound, it raises NameError.
ForestplotOverlay ==
    /\ fp_pc = "plotted"
    /\ IF "plt" \in globals
       THEN /\ fp_axes' = [fp_axes EXCEPT
                             !.vline = <<TransformOfZero(fp_transform)>>,
                             !.label = <<"no effect", TransformOfZero(fp_transform), 0>>]
            /\ fp_pc' = "returned"
       ELSE /\ fp_axes' = fp_axes
            /\ fp_pc' = "raised"
    /\ UNCHANGED <<fp_terms, fp_transform>>

HelpersIdle == ModeIdle /\ SumIdle /\ QqIdle /\ StdIdle /\ FpIdle

(***************************************************************************)
(* The notebook run: one action per code cell, executed top to bottom.     *)
(***************************************************************************)
Cells == << "imports", "helpers", "simulate", "censor_obs", "censor_cens",
            "fit_naive", "traceplot_naive", "summary_naive",
            "fit_imputed", "traceplot_imputed", "summary_imputed",
            "ppc", "distplot_imputed", "distplot_combined", "scatterplot",
            "qqplot_obs", "qqplot_all" >>

\* the names each cell binds in the namespace (imports, defs and assignments)
CellBinds == << {"np", "pd", "pm", "sns", "scipy", "rcParams"},
                {"standardize", "forestplot", "posterior_mode", "summary", "compare"},
                {"randomnormal", "df_sim", "g"},
                {"cutoff_right", "df_sim_obs", "g"},
                {"df_sim_cens", "g"},
                {"sim_model", "intercept", "x1", "x2", "mu", "sigma", "observed",
                 "sim_model_trace"},
                {"g"},
                {},
                {"sim_model_imputed", "intercept", "x1", "x2", "mu_cens", "mu", "sigma",
                 "right_censored", "observed", "sim_model_imputed_trace"},
                {"g"},
                {},
                {"ppc", "g"},
                {"g"},
                {"g", "line_x"},
                {"g"},
                {"qqplot", "g"},
                {"g"} >>

GlobalsAfter(k) == UNION {CellBinds[i] : i \in 1..k}

CellIndex(name) == CHOOSE i \in DOMAIN Cells : Cells[i] = name

AtCell(name) == nb_pc \in DOMAIN Cells /\ Cells[nb_pc] = name

\* the column df['y'] as a sequence
YColumn(df) == [i \in DOMAIN df |-> df[i].y]

\* a sampler result is opaque to the notebook: only what it was drawn from is kept
NoTrace == [model |-> "none", observed |-> <<>>, shape |-> 0]

\* executing a cell: its output is displayed and control passes to the next cell
Display(kind, data) ==
    /\ outputs' = Append(outputs, [kind |-> kind, data |-> data])
    /\ globals' = globals \cup CellBinds[nb_pc]
    /\ nb_pc' = nb_pc + 1

NbInit ==
    /\ HelpersIdle
    /\ nb_pc = 1
    /\ df_sim = <<>>
    /\ df_sim_obs = <<>>
    /\ df_sim_cens = <<>>
    /\ sim_model_trace = NoTrace
    /\ sim_model_imputed_trace = NoTrace
    /\ ppc = NoTrace
    /\ outputs = <<>>
    /\ globals = {}

ImportsCell ==
    /\ AtCell("imports")
    /\ Display("palette", <<>>)
    /\ UNCHANGED hvars
    /\ UNCHANGED <<df_sim, df_sim_obs, df_sim_cens, sim_model_trace,
                   sim_model_imputed_trace, ppc>>

HelpersCell ==
    /\ AtCell("helpers")
    /\ Display("defs", <<>>)
    /\ UNCHANGED hvars
    /\ UNCHANGED <<df_sim, df_sim_obs, df_sim_cens, sim_model_trace,
                   sim_model_imputed_trace, ppc>>

\* randomnormal = np.random.normal(0, 5, (1000, 3)); df_sim = DataFrame; df_sim['y'] = ...
SimulateCell ==
    /\ AtCell("simulate")
    /\ \E randomnormal \in [1..NRows -> [1..3 -> SimValues]] :
         df_sim' = [i \in 1..NRows |->
                      Row(i - 1, randomnormal[i][1], randomnormal[i][2], randomnormal[i][3])]
    /\ Display("distplot y", YColumn(df_sim'))
    /\ UNCHANGED hvars
    /\ UNCHANGED <<df_sim_obs, df_sim_cens, sim_model_trace,
                   sim_model_imputed_trace, ppc>>

\* a slip that rebinds the table itself to the filtered rows
CensorObsCellRebind ==
    /\ AtCell("censor_obs")
    /\ df_sim_obs' = LocObserved(df_sim)
    /\ df_sim' = LocObserved(df_sim)
    /\ Display("distplot y obs", YColumn(df_sim_obs'))
    /\ UNCHANGED hvars
    /\ UNCHANGED <<df_sim_cens, sim_model_trace, sim_model_imputed_trace, ppc>>

\* cutoff_right = 40; df_sim_obs = df_sim.loc[df_sim['y'] < cutoff_right]
CensorObsCell ==
    /\ AtCell("censor_obs")
    /\ df_sim_obs' = LocObserved(df_sim)
    /\ Display("distplot y obs", YColumn(df_sim_obs'))
    /\ UNCHANGED hvars
    /\ UNCHANGED <<df_sim, df_sim_cens, sim_model_trace, sim_model_imputed_trace, ppc>>

\* df_sim_cens = df_sim.loc[df_sim['y'] > cutoff_right]
CensorCensCell ==
    /\ AtCell("censor_cens")
    /\ df_sim_cens' = LocCensored(df_sim)
    /\ Display("distplot y cens", YColumn(df_sim_cens'))
    /\ UNCHANGED hvars
    /\ UNCHANGED <<df_sim, df_sim_obs, sim_model_trace, sim_model_imputed_trace, ppc>>

\* with pm.Model() as sim_model: ... observed=df_sim_obs['y'] ... pm.sample(...)
FitNaiveCell ==
    /\ AtCell("fit_naive")
    /\ sim_model_trace' = [model |-> "sim_model", observed |-> YColumn(df_sim_obs), shape |-> 0]
    /\ Display("named variables", <<>>)
    /\ UNCHANGED hvars
    /\ UNCHANGED <<df_sim, df_sim_obs, df_sim_cens, sim_model_imputed_trace, ppc>>

TraceplotNaiveCell ==
    /\ AtCell("traceplot_naive")
    /\ Display("traceplot", <<>>)
    /\ UNCHANGED hvars
    /\ UNCHANGED <<df_sim, df_sim_obs, df_sim_cens, sim_model_trace,
                   sim_model_imputed_trace, ppc>>

SummaryNaiveCell ==
    /\ AtCell("summary_naive")
    /\ Display("summary", <<>>)
    /\ UNCHANGED hvars
    /\ UNCHANGED <<df_sim, df_sim_obs, df_sim_cens, sim_model_trace,
                   sim_model_imputed_trace, ppc>>

\* with pm.Model() as sim_model_imputed: right_censored has shape=len(df_sim_cens)
FitImputedCell ==
    /\ AtCell("fit_imputed")
    /\ sim_model_imputed_trace' = [model |-> "sim_model_imputed",
                                   observed |-> YColumn(df_sim_obs),
                                   shape |-> Len(df_sim_cens)]
    /\ Display("named variables", <<>>)
    /\ UNCHANGED hvars
    /\ UNCHANGED <<df_sim, df_sim_obs, df_sim_cens, sim_model_trace, ppc>>

TraceplotImputedCell ==
    /\ AtCell("traceplot_imputed")
    /\ Display("traceplot", <<>>)
    /\ UNCHANGED hvars
    /\ UNCHANGED <<df_sim, df_sim_obs, df_sim_cens, sim_model_trace,
                   sim_model_imputed_trace, ppc>>

SummaryImputedCell ==
    /\ AtCell("summary_imputed")
    /\ Display("summary", <<>>)
    /\ UNCHANGED hvars
    /\ UNCHANGED <<df_sim, df_sim_obs, df_sim_cens, sim_model_trace,
                   sim_model_imputed_trace, ppc>>

\* ppc = pm.sample_posterior_predictive(sim_model_imputed_trace, ..., model=sim_model_imputed)
PpcCell ==
    /\ AtCell("ppc")
    /\ ppc' = [model |-> "ppc", observed |-> sim_model_imputed_trace.observed,
               shape |-> Len(sim_model_imputed_trace.observed)]
    /\ Display("distplot ppc", <<>>)
    /\ UNCHANGED hvars
    /\ UNCHANGED <<df_sim, df_sim_obs, df_sim_cens, sim_model_trace,
                   sim_model_imputed_trace>>

DistplotImputedCell ==
    /\ AtCell("distplot_imputed")
    /\ Display("distplot right_censored", <<>>)
    /\ UNCHANGED hvars
    /\ UNCHANGED <<df_sim, df_sim_obs, df_sim_cens, sim_model_trace,
                   sim_model_imputed_trace, ppc>>

\* the red line is drawn at df_sim['y'].mean()
DistplotCombinedCell ==
    /\ AtCell("distplot_combined")
    /\ Display("posterior predictive distribution", YColumn(df_sim))
    /\ UNCHANGED hvars
    /\ UNCHANGED <<df_sim, df_sim_obs, df_sim_cens, sim_model_trace,
                   sim_model_imputed_trace, ppc>>

ScatterplotCell ==
    /\ AtCell("scatterplot")
    /\ Display("scatterplot", YColumn(df_sim_obs))
    /\ UNCHANGED hvars
    /\ UNCHANGED <<df_sim, df_sim_obs, df_sim_cens, sim_model_trace,
                   sim_model_imputed_trace, ppc>>

\* def qqplot ...; g = qqplot(ppc['y'].mean(axis=0), df_sim_obs['y'])
QqplotObsCell ==
    /\ AtCell("qqplot_obs")
    /\ Display("quantile-quantile plot", YColumn(df_sim_obs))
    /\ UNCHANGED hvars
    /\ UNCHANGED <<df_sim, df_sim_obs, df_sim_cens, sim_model_trace,
                   sim_model_imputed_trace, ppc>>

\* g = qqplot(np.hstack([...]), np.hstack([df_sim_obs['y'], df_sim_cens['y']]))
QqplotAllCell ==
    /\ AtCell("qqplot_all")
    /\ Display("quantile-quantile plot", YColumn(df_sim_obs) \o YColumn(df_sim_cens))
    /\ UNCHANGED hvars
    /\ UNCHANGED <<df_sim, df_sim_obs, df_sim_cens, sim_model_trace,
                   sim_model_imputed_trace, ppc>>

NbNext ==
    \/ ImportsCell
    \/ HelpersCell
    \/ SimulateCell
    \/ CensorObsCell
    \/ CensorCensCell
    \/ FitNaiveCell
    \/ TraceplotNaiveCell
    \/ SummaryNaiveCell
    \/ FitImputedCell
    \/ TraceplotImputedCell
    \/ SummaryImputedCell
    \/ PpcCell
    \/ DistplotImputedCell
    \/ DistplotCombinedCell
    \/ ScatterplotCell
    \/ QqplotObsCell
    \/ QqplotAllCell

Spec == NbInit /\ [][NbNext]_vars

NbDataIdle ==
    /\ nb_pc = 0
    /\ df_sim = <<>>
    /\ df_sim_obs = <<>>
    /\ df_sim_cens = <<>>
    /\ sim_model_trace = NoTrace
    /\ sim_model_imputed_trace = NoTrace
    /\ ppc = NoTrace
    /\ outputs = <<>>

NbIdle == NbDataIdle /\ globals = {}

ModeNext ==
    \/ CallMode /\ UNCHANGED <<nbvars, sumvars, qqvars, stdvars, fpvars>>
    \/ CallModeClean /\ UNCHANGED <<nbvars, sumvars, qqvars, stdvars, fpvars>>

ModeSpecInit == NbIdle /\ SumIdle /\ QqIdle /\ StdIdle /\ FpIdle /\ ModeInit

SpecMode == ModeSpecInit /\ [][ModeNext]_vars

SumNext ==
    \/ CallSummary /\ UNCHANGED <<nbvars, modevars, qqvars, stdvars, fpvars>>
    \/ CallColumnMode /\ UNCHANGED <<nbvars, modevars, qqvars, stdvars, fpvars>>

SumSpecInit == NbIdle /\ ModeIdle /\ QqIdle /\ StdIdle /\ FpIdle /\ SumInit

SpecSummary == SumSpecInit /\ [][SumNext]_vars

QqNext == CallQqplot /\ UNCHANGED <<nbvars, modevars, sumvars, stdvars, fpvars>>

QqSpecInit == NbIdle /\ ModeIdle /\ SumIdle /\ StdIdle /\ FpIdle /\ QqInit

SpecQq == QqSpecInit /\ [][QqNext]_vars

StdNext == CallStandardize /\ UNCHANGED <<nbvars, modevars, sumvars, qqvars, fpvars>>

StdSpecInit == NbIdle /\ ModeIdle /\ SumIdle /\ QqIdle /\ FpIdle /\ StdInit

SpecStd == StdSpecInit /\ [][StdNext]_vars

\* forestplot is defined by the helpers cell and may be called after any later cell
FpNbInit ==
    /\ NbDataIdle
    /\ \E k \in CellIndex("helpers")..Len(Cells) : globals = GlobalsAfter(k)

FpNext ==
    \/ ForestplotIntervals /\ UNCHANGED <<nbvars, modevars, sumvars, qqvars, stdvars>>
    \/ ForestplotOverlay /\ UNCHANGED <<nbvars, modevars, sumvars, qqvars, stdvars>>

FpSpecInit == FpNbInit /\ ModeIdle /\ SumIdle /\ QqIdle /\ StdIdle /\ FpInit

SpecForest == FpSpecInit /\ [][FpNext]_vars

(***************************************************************************)
(* C3: for an array with at least two distinct finite values, the value    *)
(* _posterior_mode returns is the point, at the arg-max index of the       *)
(* density, of the grid np.linspace(xmin, xmax, bins) the density was      *)
(* evaluated on.                                                           *)
(***************************************************************************)
ModeIsGridPoint ==
    mode_out.status = "ok" =>
        RatEq(mode_out.value,
              Linspace(mode_out.xmin, mode_out.xmax, Bins, mode_out.argmax))

(***************************************************************************)
(* C4: non-finite values are excluded before min, max and the density are  *)
(* computed: the outcome on an array equals the outcome on the same array  *)
(* with its non-finite values removed.                                     *)
(***************************************************************************)
NonFiniteIgnored ==
    (mode_out # NoMode /\ mode_clean # NoMode) => mode_out = mode_clean

NonFiniteIgnoredWitness ==
    /\ mode_out.status = "ok"
    /\ mode_clean.status = "ok"
    /\ \E i \in DOMAIN samples : ~isfinite(samples[i])
    /\ mode_out.argmax > 0

(***************************************************************************)
(* C8: summary of a multi-parameter trace has exactly one row per          *)
(* parameter column, and the 'mode' entry of each row is what the          *)
(* estimator returns on that column's samples alone, whatever the other    *)
(* columns hold.                                                           *)
(***************************************************************************)
ModePerColumn ==
    /\ table.status = "ok" =>
         /\ Len(table.rows) = Len(TraceColumns)
         /\ \A j \in DOMAIN table.rows : table.rows[j].param = TraceColumns[j]
    /\ (table.status = "ok" /\ col_mode.status = "ok") =>
         /\ Len(col_mode.modes) = 1
         /\ table.rows[col_mode.col].mode = col_mode.modes[1]

ModePerColumnWitness ==
    /\ table.status = "ok"
    /\ col_mode.status = "ok"
    /\ \E j \in DOMAIN table.rows : table.rows[j].mode # table.rows[col_mode.col].mode
(***************************************************************************)
(* C5: qqplot plots exactly n quantile pairs, at percentiles equally       *)
(* spaced from 0 to 100 inclusive, pair i being the i-th percentile of     *)
(* predicted against the i-th percentile of observed; identical arrays     *)
(* give pairs with x = y, and [1..100] against itself with n = 101 gives   *)
(* 101 pairs on the diagonal.                                              *)
(***************************************************************************)
\* the k-th smallest element (k from 1), by counting
OrderStat(a, k) ==
    CHOOSE v \in Range(a) :
        /\ Cardinality({i \in DOMAIN a : a[i] < v}) < k
        /\ Cardinality({i \in DOMAIN a : a[i] <= v}) >= k

\* quantile i of n of the array a, where the virtual index falls on an element
\* or between two neighbours
QuantileOk(a, n, i, v) ==
    LET m == Len(a)
        pos == (i - 1) * (m - 1)
    IN  IF n = 1 THEN RatEq(v, Rat(OrderStat(a, 1), 1))
        ELSE /\ RatLe(Rat(OrderStat(a, (pos \div (n - 1)) + 1), 1), v)
             /\ RatLe(v, Rat(OrderStat(a, Min((pos \div (n - 1)) + 2, m)), 1))
             /\ (pos % (n - 1) = 0 => RatEq(v, Rat(OrderStat(a, (pos \div (n - 1)) + 1), 1)))

QuantilePairs ==
    qq.status = "ok" =>
        /\ Len(qq.x) = qq_n
        /\ Len(qq.y) = qq_n
        /\ \A i \in 1..qq_n : QuantileOk(predicted, qq_n, i, qq.x[i])
        /\ \A i \in 1..qq_n : QuantileOk(observed, qq_n, i, qq.y[i])
        /\ (predicted = observed => \A i \in 1..qq_n : RatEq(qq.x[i], qq.y[i]))
        /\ (predicted = Ramp /\ observed = Ramp /\ qq_n = DefaultN =>
               \A i \in 1..DefaultN :
                   /\ RatEq(qq.x[i], Rat(100 + 99 * (i - 1), 100))
                   /\ RatEq(qq.y[i], qq.x[i]))

QuantilePairsWitness ==
    /\ qq.status = "ok"
    /\ predicted = Ramp
    /\ observed = Ramp
    /\ Len(qq.x) = DefaultN

(***************************************************************************)
(* C6: the diagonal runs from (lower, lower) to (upper, upper), lower and  *)
(* upper being the minimum and maximum over both quantile sets, so every   *)
(* plotted pair lies within [lower, upper] on both axes.                   *)
(***************************************************************************)
DiagonalSpans ==
    qq.status = "ok" =>
        LET lower == qq.line[1][1]
            upper == qq.line[1][2]
        IN  /\ qq.line[2] = qq.line[1]
            /\ \A i \in DOMAIN qq.x :
                 /\ RatLe(lower, qq.x[i]) /\ RatLe(qq.x[i], upper)
                 /\ RatLe(lower, qq.y[i]) /\ RatLe(qq.y[i], upper)
            /\ lower \in Range(qq.x) \cup Range(qq.y)
            /\ upper \in Range(qq.x) \cup Range(qq.y)

DiagonalSpansWitness ==
    /\ qq.status = "ok"
    /\ qq.line[1][1] \notin Range(qq.x)
    /\ qq.line[1][2] \in Range(qq.x)
    /\ Len(qq.x) > 1

(***************************************************************************)
(* C7: for a column with nonzero variance, standardize returns             *)
(* (x - mean(x)) / (2 * stddev(x)) elementwise, so the returned column has *)
(* mean 0 and standard deviation 0.5.                                      *)
(***************************************************************************)
\* the mean of the returned column is zero
OutMeanIsZero(out) == SumSeq(out.numer) = 0

\* the variance (ddof = 1) of the returned column, as a rational
OutVariance(out) ==
    LET n == Len(out.numer)
        ss == n * SumSq(out.numer) - SumSeq(out.numer) * SumSeq(out.numer)
    IN  Rat(ss * out.var.den,
            n * (n - 1) * out.numer_den * out.numer_den * out.factor * out.factor * out.var.num)

StandardizedMoments ==
    standardized.status = "ok" =>
        /\ Len(standardized.numer) = Len(column)
        /\ \A i \in DOMAIN column :
             standardized.numer[i] = standardized.numer_den * column[i] - SumSeq(column)
        /\ OutMeanIsZero(standardized)
        /\ RatEq(OutVariance(standardized), Rat(1, 4))

StandardizedMomentsWitness ==
    /\ standardized.status = "ok"
    /\ Len(column) = MaxColumn
    /\ Cardinality(Range(column)) > 2

(***************************************************************************)
(* C9: every call of forestplot that has rendered the interval plot goes   *)
(* on to draw the vertical reference line at transform(0) and the          *)
(* 'no effect' label at the same x; it does not stop in between.           *)
(***************************************************************************)
ForestplotOverlays ==
    (fp_pc \in {"returned", "raised"} /\ fp_axes.rendered) =>
        /\ fp_pc = "returned"
        /\ fp_axes.vline = <<TransformOfZero(fp_transform)>>
        /\ fp_axes.label = <<"no effect", TransformOfZero(fp_transform), 0>>

(***************************************************************************)
(* C1: once both subsets are derived, df_sim_obs and df_sim_cens together  *)
(* hold every row of df_sim exactly once, a row whose y equals the cutoff  *)
(* included.                                                               *)
(***************************************************************************)
Occurrences(df, row) == Cardinality({i \in DOMAIN df : df[i] = row})

SplitReconstructsTable ==
    nb_pc > CellIndex("censor_cens") =>
        /\ Len(df_sim_obs) + Len(df_sim_cens) = Len(df_sim)
        /\ \A i \in DOMAIN df_sim :
             Occurrences(df_sim_obs, df_sim[i]) + Occurrences(df_sim_cens, df_sim[i]) = 1

(***************************************************************************)
(* C2: no row of the table is in both df_sim_obs and df_sim_cens.          *)
(***************************************************************************)
SplitDisjoint ==
    nb_pc > CellIndex("censor_cens") =>
        /\ Range(df_sim_obs) \cap Range(df_sim_cens) = {}
        /\ \A i \in DOMAIN df_sim :
             ~(df_sim[i] \in Range(df_sim_obs) /\ df_sim[i] \in Range(df_sim_cens))

SplitDisjointWitness ==
    /\ nb_pc > CellIndex("censor_cens")
    /\ df_sim_obs # <<>>
    /\ df_sim_cens # <<>>

(***************************************************************************)
(* C10: the cells run once each in their fixed order; after the Simulator  *)
(* cell no step changes df_sim, and df_sim_obs and df_sim_cens are never   *)
(* changed after the cell that derives them.                               *)
(***************************************************************************)
TableFrozen ==
    [][ /\ nb_pc' = nb_pc + 1
        /\ (nb_pc > CellIndex("simulate") => df_sim' = df_sim)
        /\ (nb_pc > CellIndex("censor_obs") => df_sim_obs' = df_sim_obs)
        /\ (nb_pc > CellIndex("censor_cens") => df_sim_cens' = df_sim_cens)
        /\ (sim_model_trace' # sim_model_trace => AtCell("fit_naive"))
        /\ (sim_model_imputed_trace' # sim_model_imputed_trace => AtCell("fit_imputed"))
        /\ CellIndex("simulate") < CellIndex("censor_obs")
        /\ CellIndex("censor_cens") < CellIndex("fit_naive")
        /\ CellIndex("fit_naive") < CellIndex("fit_imputed")
        /\ CellIndex("fit_imputed") < CellIndex("ppc") ]_vars

TableFrozenWitness ==
    /\ nb_pc = Len(Cells) + 1
    /\ df_sim_obs # <<>>
    /\ df_sim_cens # <<>>

====
